---------------------------- MODULE Spec2Model ----------------------------
(***************************************************************************)
(* FactShield: the /check request handler of src/app.py as a state         *)
(* machine.  A string is a sequence of one-character strings, so that      *)
(* Python's substring test, str.lower and str.split are computed rather    *)
(* than assumed.  Similarities and confidences are in hundredths (0.6 is   *)
(* 60, 0.85 is 85).                                                        *)
(***************************************************************************)
EXTENDS Integers, Sequences, FiniteSets, TLC

VARIABLES content, pc, text, score, findings, src_i, headlines,
          matched_sources, core_terms, item_i, similarity, term_overlap,
          strong_sources, ai, response, calls

vars == <<content, pc, text, score, findings, src_i, headlines,
          matched_sources, core_terms, item_i, similarity, term_overlap,
          strong_sources, ai, response, calls>>

-----------------------------------------------------------------------------
(* Bounds of the inputs.                                                   *)

\* a request's content is at most MaxPhrases vocabulary phrases
MaxPhrases == 2

\* the feeds together deliver at most MaxHeadlines entries per request
MaxHeadlines == 2

-----------------------------------------------------------------------------
(* Strings.                                                                *)

Min(a, b) == IF a < b THEN a ELSE b

Max(a, b) == IF a > b THEN a ELSE b

UpperCase == <<"A","B","C","D","E","F","G","H","I","J","K","L","M",
               "N","O","P","Q","R","S","T","U","V","W","X","Y","Z">>

LowerCase == <<"a","b","c","d","e","f","g","h","i","j","k","l","m",
               "n","o","p","q","r","s","t","u","v","w","x","y","z">>

\* str.lower()
Lower(s) ==
    [i \in 1..Len(s) |->
        IF \E k \in 1..26 : UpperCase[k] = s[i]
        THEN LowerCase[CHOOSE k \in 1..26 : UpperCase[k] = s[i]]
        ELSE s[i]]

\* Python's `needle in hay` on strings
Contains(hay, needle) ==
    \E i \in 0..(Len(hay) - Len(needle)) :
        SubSeq(hay, i + 1, i + Len(needle)) = needle

IsSpace(c) == c \in {" ", "\t", "\n"}

RECURSIVE SplitFrom(_, _, _, _)
SplitFrom(s, i, word, acc) ==
    IF i > Len(s)
    THEN IF word = <<>> THEN acc ELSE Append(acc, word)
    ELSE IF IsSpace(s[i])
         THEN SplitFrom(s, i + 1, <<>>,
                        IF word = <<>> THEN acc ELSE Append(acc, word))
         ELSE SplitFrom(s, i + 1, Append(word, s[i]), acc)

\* str.split() with no separator: runs of whitespace separate, no empty words
Split(s) == SplitFrom(s, 1, <<>>, <<>>)

\* s[:n]
Take(s, n) == SubSeq(s, 1, Min(n, Len(s)))

RECURSIVE Join(_)
Join(ws) ==
    IF Len(ws) = 0 THEN <<>>
    ELSE IF Len(ws) = 1 THEN ws[1]
    ELSE ws[1] \o <<" ">> \o Join(Tail(ws))

\* the orders in which a list comprehension may iterate a set
Perms(S) ==
    {p \in [1..Cardinality(S) -> S] : \A a \in S : \E i \in DOMAIN p : p[i] = a}

-----------------------------------------------------------------------------
(* Configuration and helpers of src/app.py.                                *)

\* RSS_FEEDS, in the order the dict is written (its iteration order)
RSS_FEEDS ==
    <<"BBC News", "World Health Organization", "Press Information Bureau",
      "Mint (LiveMint)", "The Indian Express", "Aaj Tak", "Google News">>

keywords ==
    <<<<"d","i","e","d">>,
      <<"k","i","l","l","e","d">>,
      <<"a","n","n","o","u","n","c","e","d">>,
      <<"i","s","s","u","e","d">>,
      <<"c","o","n","f","i","r","m","e","d">>,
      <<"d","e","c","l","a","r","e","d">>,
      <<"r","e","p","o","r","t","e","d">>,
      <<"a","r","r","e","s","t","e","d">>,
      <<"r","e","s","i","g","n","e","d">>,
      <<"a","l","e","r","t">>,
      <<"a","d","v","i","s","o","r","y">>,
      <<"l","a","u","n","c","h","e","d">>>>

\* the test of the claim type check inverted
is_news_checkable_negated(t) ==
    ~\E k \in 1..Len(keywords) : Contains(t, keywords[k])

\* is_news_checkable(text)
is_news_checkable(t) == \E k \in 1..Len(keywords) : Contains(t, keywords[k])

stopwords ==
    {<<"t","h","e">>,
     <<"i","s">>,
     <<"t","o">>,
     <<"o","f">>,
     <<"a","n","d">>,
     <<"a">>,
     <<"w","i","l","l">>,
     <<"i","n">>,
     <<"o","n">>,
     <<"f","o","r">>,
     <<"t","h","a","t">>,
     <<"h","a","s">>,
     <<"h","a","v","e">>,
     <<"w","i","t","h">>}

\* extract_core_terms(text): a list, in the order of the words of the text
extract_core_terms(t) ==
    SelectSeq(Split(t), LAMBDA w : w \notin stopwords /\ Len(w) > 4)

\* "whatsapp" in text or "forwarded" in text
ForwardedPhrasing(t) ==
    \/ Contains(t, <<"w","h","a","t","s","a","p","p">>)
    \/ Contains(t, <<"f","o","r","w","a","r","d","e","d">>)

AlarmistWords ==
    <<<<"b","r","e","a","k","i","n","g">>,
      <<"u","r","g","e","n","t">>,
      <<"p","a","n","i","c">>,
      <<"s","h","o","c","k","i","n","g">>,
      <<"d","e","a","d","l","y">>>>

\* any(w in text for w in ["breaking", "urgent", "panic", "shocking", "deadly"])
AlarmistLanguage(t) ==
    \E k \in 1..Len(AlarmistWords) : Contains(t, AlarmistWords[k])

PublicFigures ==
    <<<<"m","o","d","i">>,
      <<"p","r","i","m","e"," ","m","i","n","i","s","t","e","r">>>>

\* any(n in text for n in ["modi", "prime minister"]) and "died" in text
PublicFigureDeath(t) ==
    /\ \E k \in 1..Len(PublicFigures) : Contains(t, PublicFigures[k])
    /\ Contains(t, <<"d","i","e","d">>)

-----------------------------------------------------------------------------
(* The sections of check(), as functions of the running score.             *)

\* a finding: its text and, for the two f-strings, the sources it lists
Finding(msg, sources) == <<msg, sources>>

\* the alarmist penalty as an elif of the forwarded one
LanguageRiskScore_elif(s, t) ==
    IF ForwardedPhrasing(t) THEN s - 30
    ELSE IF AlarmistLanguage(t) THEN s - 25
    ELSE s

\* the alarmist penalty with its sign flipped
LanguageRiskScore_alarm_bonus(s, t) ==
    LET s1 == IF ForwardedPhrasing(t) THEN s - 30 ELSE s
    IN  IF AlarmistLanguage(t) THEN s1 + 25 ELSE s1

\* BASIC LANGUAGE RISK: the two independent penalties
LanguageRiskScore(s, t) ==
    LET s1 == IF ForwardedPhrasing(t) THEN s - 30 ELSE s
    IN  IF AlarmistLanguage(t) THEN s1 - 25 ELSE s1

LanguageRiskFindings(t) ==
    (IF ForwardedPhrasing(t)
     THEN <<Finding("Unverified forwarded message", <<>>)>> ELSE <<>>)
    \o
    (IF AlarmistLanguage(t)
     THEN <<Finding("Alarmist language detected", <<>>)>> ELSE <<>>)

\* a flat penalty in place of the cap
PublicFigureScore_penalty(s, t) == IF PublicFigureDeath(t) THEN s - 15 ELSE s

\* PUBLIC FIGURE SANITY: score = min(score, 15)
PublicFigureScore(s, t) == IF PublicFigureDeath(t) THEN Min(s, 15) ELSE s

PublicFigureFindings(t) ==
    IF PublicFigureDeath(t)
    THEN <<Finding("Unverified death claim about public figure", <<>>)>>
    ELSE <<>>

\* term_overlap = sum(1 for t in core_terms if t in item["title"])
TermOverlap(terms, title) ==
    Cardinality({k \in 1..Len(terms) : Contains(title, terms[k])})

\* `or` in place of `and`
IsMatch_either(sim, overlap) == sim > 60 \/ overlap >= 2

\* similarity > 0.6 and term_overlap >= 2
IsMatch(sim, overlap) == sim > 60 /\ overlap >= 2

\* the weak source not filtered out
StrongSources_all(matched) == matched

\* the sources of [s for s in matched_sources if s != "Google News"]
StrongSources(matched) == {s \in matched : s # "Google News"}

\* CONFIRMATION LOGIC on the number of strong sources
ConfirmationScore(s, n) ==
    IF n >= 2 THEN s + 35
    ELSE IF n = 1 THEN s + 10
    ELSE s - 30

ConfirmationFinding(strong) ==
    IF Len(strong) >= 2
    THEN Finding("Confirmed by multiple trusted sources: ", strong)
    ELSE IF Len(strong) = 1
    THEN Finding("Partial confirmation from ", <<strong[1]>>)
    ELSE Finding("No reliable confirmation found in trusted news sources", <<>>)

\* AI MANIPULATION CHECK on the classifier's answer
ManipulationScore(s, a) ==
    IF a.label = "NEGATIVE" /\ a.score > 85 THEN s - 15 ELSE s

ManipulationFindings(a) ==
    IF a.label = "NEGATIVE" /\ a.score > 85
    THEN <<Finding("Emotionally manipulative language detected", <<>>)>>
    ELSE <<>>

\* the ceiling without the floor
Normalize_no_floor(s) == Min(s, 95)

\* NORMALIZE: score = max(0, min(score, 95))
Normalize(s) == Max(0, Min(s, 95))

\* the thresholds taken strictly
StatusOf_strict(s) ==
    IF s > 70 THEN <<"Likely True", "high">>
    ELSE IF s > 40 THEN <<"Unverified", "medium">>
    ELSE <<"Likely False", "low">>

\* the status and color of a normalized score
StatusOf(s) ==
    IF s >= 70 THEN <<"Likely True", "high">>
    ELSE IF s >= 40 THEN <<"Unverified", "medium">>
    ELSE <<"Likely False", "low">>

\* the verdict of the claim type check for a text that is not checkable
NotCheckableVerdict ==
    [score    |-> 30,
     status   |-> "Not Fact-Checkable",
     color    |-> "medium",
     findings |-> <<Finding("This statement is an opinion, prediction, or non-news claim", <<>>)>>]

\* the score check() returns once the language and public-figure rules have
\* left the running score at `running`
CheckScoreFrom(running, matched, a) ==
    Normalize(
        ManipulationScore(
            ConfirmationScore(running, Cardinality(StrongSources(matched))),
            a))

\* the score check() returns for a checkable text, given the matched sources
\* and the classifier's answer
CheckScore(t, matched, a) ==
    CheckScoreFrom(PublicFigureScore(LanguageRiskScore(100, t), t), matched, a)

-----------------------------------------------------------------------------
(* Inputs: the request and the answers of the collaborators.               *)

\* the phrases a content is made of: "breaking", "whatsapp",
\* "forwarded alert", "modi died", "budget announced", "Arrested"
Vocabulary ==
    {<<"b","r","e","a","k","i","n","g">>,
     <<"w","h","a","t","s","a","p","p">>,
     <<"f","o","r","w","a","r","d","e","d"," ","a","l","e","r","t">>,
     <<"m","o","d","i"," ","d","i","e","d">>,
     <<"b","u","d","g","e","t"," ","a","n","n","o","u","n","c","e","d">>,
     <<"A","r","r","e","s","t","e","d">>}

\* request.json["content"]
Contents ==
    {Join(ws) : ws \in UNION {[1..n -> Vocabulary] : n \in 1..MaxPhrases}}

\* entry.title: "Budget Announced, Minister Arrested"
Titles ==
    {<<"B","u","d","g","e","t"," ","A","n","n","o","u",
       "n","c","e","d",","," ","M","i","n","i","s","t",
       "e","r"," ","A","r","r","e","s","t","e","d">>}

\* published_parsed of an entry: absent, or its age in days at `now`
Published ==
    {[present |-> FALSE, age |-> 0],
     [present |-> TRUE,  age |-> 2],
     [present |-> TRUE,  age |-> 3]}

Entries == [title : Titles, published_parsed : Published]

\* the feeds that have entries to deliver; the others answer with none
LiveFeeds == {"The Indian Express", "Aaj Tak", "Google News"}

\* feed.entries of feedparser.parse(url)
FeedEntries(source) ==
    IF source \in LiveFeeds
    THEN UNION {[1..n -> Entries] : n \in 0..MaxHeadlines}
    ELSE {<<>>}

\* util.cos_sim(...).item(), in hundredths
Similarities == {60, 90}

\* sentiment_analyzer(...)[0], the score in hundredths
SentimentAnswers ==
    {[label |-> "NEGATIVE", score |-> 90],
     [label |-> "NEGATIVE", score |-> 85],
     [label |-> "POSITIVE", score |-> 90]}

-----------------------------------------------------------------------------
(* The request handler.                                                    *)

NoResponse == [score |-> 0, status |-> "", color |-> "", findings |-> <<>>]

NoAnswer == [label |-> "", score |-> 0]

\* the headlines one feed contributes: at most 10 entries are read, an entry
\* with a publication date more than 2 days old is skipped, titles are lowered
FeedHeadlines(source, entries) ==
    LET read == Take(entries, 10)
        kept == SelectSeq(read, LAMBDA e :
                    ~(e.published_parsed.present /\ e.published_parsed.age > 2))
    IN  [i \in 1..Len(kept) |->
            [source |-> source, title |-> Lower(kept[i].title)]]

Init ==
    /\ content \in Contents
    /\ pc = "request"
    /\ text = <<>>
    /\ score = 0
    /\ findings = <<>>
    /\ src_i = 0
    /\ headlines = <<>>
    /\ matched_sources = {}
    /\ core_terms = <<>>
    /\ item_i = 0
    /\ similarity = 0
    /\ term_overlap = 0
    /\ strong_sources = <<>>
    /\ ai = NoAnswer
    /\ response = NoResponse
    /\ calls = [parse |-> 0, encode |-> 0, classify |-> 0]

\* text = request.json["content"].lower(); score = 100; findings = []
Begin ==
    /\ pc = "request"
    /\ text' = Lower(content)
    /\ score' = 100
    /\ findings' = <<>>
    /\ pc' = "claim_type"
    /\ UNCHANGED <<content, src_i, headlines, matched_sources, core_terms,
                   item_i, similarity, term_overlap, strong_sources, ai,
                   response, calls>>

\* CLAIM TYPE CHECK: a text that is not checkable is answered at once
ClaimTypeCheck ==
    /\ pc = "claim_type"
    /\ IF ~is_news_checkable(text)
       THEN /\ response' = NotCheckableVerdict
            /\ pc' = "done"
       ELSE /\ response' = response
            /\ pc' = "language_risk"
    /\ UNCHANGED <<content, text, score, findings, src_i, headlines,
                   matched_sources, core_terms, item_i, similarity,
                   term_overlap, strong_sources, ai, calls>>

\* BASIC LANGUAGE RISK
BasicLanguageRisk ==
    /\ pc = "language_risk"
    /\ score' = LanguageRiskScore(score, text)
    /\ findings' = findings \o LanguageRiskFindings(text)
    /\ pc' = "public_figure"
    /\ UNCHANGED <<content, text, src_i, headlines, matched_sources,
                   core_terms, item_i, similarity, term_overlap,
                   strong_sources, ai, response, calls>>

\* PUBLIC FIGURE SANITY
PublicFigureSanity ==
    /\ pc = "public_figure"
    /\ score' = PublicFigureScore(score, text)
    /\ findings' = findings \o PublicFigureFindings(text)
    /\ pc' = "call_fetch"
    /\ UNCHANGED <<content, text, src_i, headlines, matched_sources,
                   core_terms, item_i, similarity, term_overlap,
                   strong_sources, ai, response, calls>>

\* fetch_recent_headlines() is entered: headlines = []
CallFetch ==
    /\ pc = "call_fetch"
    /\ headlines' = <<>>
    /\ src_i' = 1
    /\ pc' = "fetch"
    /\ UNCHANGED <<content, text, score, findings, matched_sources,
                   core_terms, item_i, similarity, term_overlap,
                   strong_sources, ai, response, calls>>

\* one iteration of `for source, url in RSS_FEEDS.items()`: the feed is parsed
\* and answers with entries (none, when the fetch failed inside the parser)
FetchFeed ==
    /\ pc = "fetch"
    /\ src_i <= Len(RSS_FEEDS)
    /\ \E entries \in FeedEntries(RSS_FEEDS[src_i]) :
          /\ headlines' = headlines \o FeedHeadlines(RSS_FEEDS[src_i], entries)
          /\ Len(headlines') <= MaxHeadlines
    /\ src_i' = src_i + 1
    /\ calls' = [calls EXCEPT !.parse = @ + 1]
    /\ UNCHANGED <<content, pc, text, score, findings, matched_sources,
                   core_terms, item_i, similarity, term_overlap,
                   strong_sources, ai, response>>

\* feedparser.parse(url) raises: nothing in fetch_recent_headlines or check
\* catches it, the request ends without a verdict
FetchRaise ==
    /\ pc = "fetch"
    /\ src_i <= Len(RSS_FEEDS)
    /\ calls' = [calls EXCEPT !.parse = @ + 1]
    /\ pc' = "aborted"
    /\ UNCHANGED <<content, text, score, findings, src_i, headlines,
                   matched_sources, core_terms, item_i, similarity,
                   term_overlap, strong_sources, ai, response>>

\* return headlines; matched_sources = set(); the claim is embedded;
\* core_terms = extract_core_terms(text)
BeginMatching ==
    /\ pc = "fetch"
    /\ src_i > Len(RSS_FEEDS)
    /\ matched_sources' = {}
    /\ core_terms' = extract_core_terms(text)
    /\ item_i' = 1
    /\ calls' = [calls EXCEPT !.encode = @ + 1]
    /\ pc' = "match"
    /\ UNCHANGED <<content, text, score, findings, src_i, headlines,
                   similarity, term_overlap, strong_sources, ai, response>>

\* one iteration of `for item in headlines`
MatchHeadline ==
    /\ pc = "match"
    /\ item_i <= Len(headlines)
    /\ \E sim \in Similarities :
          /\ similarity' = sim
          /\ term_overlap' = TermOverlap(core_terms, headlines[item_i].title)
          /\ matched_sources' =
                IF IsMatch(sim, term_overlap')
                THEN matched_sources \cup {headlines[item_i].source}
                ELSE matched_sources
    /\ item_i' = item_i + 1
    /\ calls' = [calls EXCEPT !.encode = @ + 1]
    /\ UNCHANGED <<content, pc, text, score, findings, src_i, headlines,
                   core_terms, strong_sources, ai, response>>

\* CONFIRMATION LOGIC, the list strong_sources in any order of the set
Confirmation ==
    /\ pc = "match"
    /\ item_i > Len(headlines)
    /\ strong_sources' \in Perms(StrongSources(matched_sources))
    /\ score' = ConfirmationScore(score, Len(strong_sources'))
    /\ findings' = Append(findings, ConfirmationFinding(strong_sources'))
    /\ pc' = "manipulation"
    /\ UNCHANGED <<content, text, src_i, headlines, matched_sources,
                   core_terms, item_i, similarity, term_overlap, ai,
                   response, calls>>

\* AI MANIPULATION CHECK: the classifier is asked about text[:512]
ManipulationCheck ==
    /\ pc = "manipulation"
    /\ ai' \in SentimentAnswers
    /\ score' = ManipulationScore(score, ai')
    /\ findings' = findings \o ManipulationFindings(ai')
    /\ calls' = [calls EXCEPT !.classify = @ + 1]
    /\ pc' = "normalize"
    /\ UNCHANGED <<content, text, src_i, headlines, matched_sources,
                   core_terms, item_i, similarity, term_overlap,
                   strong_sources, response>>

\* NORMALIZE, the status and the response
NormalizeAndReturn ==
    /\ pc = "normalize"
    /\ score' = Normalize(score)
    /\ response' = [score    |-> score',
                    status   |-> StatusOf(score')[1],
                    color    |-> StatusOf(score')[2],
                    findings |-> findings]
    /\ pc' = "done"
    /\ UNCHANGED <<content, text, findings, src_i, headlines,
                   matched_sources, core_terms, item_i, similarity,
                   term_overlap, strong_sources, ai, calls>>

Next ==
    \/ Begin
    \/ ClaimTypeCheck
    \/ BasicLanguageRisk
    \/ PublicFigureSanity
    \/ CallFetch
    \/ FetchFeed
    \/ FetchRaise
    \/ BeginMatching
    \/ MatchHeadline
    \/ Confirmation
    \/ ManipulationCheck
    \/ NormalizeAndReturn

Spec == Init /\ [][Next]_vars

-----------------------------------------------------------------------------
(* Properties.                                                             *)

\* the text holds one of the checkability keywords (read off the list itself)
HasKeyword(t) == \E k \in 1..Len(keywords) : Contains(t, keywords[k])

\* the response is the verdict of a completed scoring run
Scored == pc = "done" /\ response.status # "Not Fact-Checkable"

Strong(matched) == matched \ {"Google News"}

NegativeSentiment(a) == a.label = "NEGATIVE" /\ a.score > 85

Clamp(s) == IF s < 0 THEN 0 ELSE IF s > 95 THEN 95 ELSE s

\* C1: a text with none of the checkability keywords gets exactly score 30,
\* "Not Fact-Checkable", "medium" and one finding, whatever risk words it
\* holds, and no feed is parsed, nothing is embedded and nothing is classified
\* on that path.
C1_NotCheckableShortCircuit ==
    (pc # "request" /\ ~HasKeyword(text)) =>
        /\ pc \in {"claim_type", "done"}
        /\ calls = [parse |-> 0, encode |-> 0, classify |-> 0]
        /\ pc = "done" =>
              /\ response.score = 30
              /\ response.status = "Not Fact-Checkable"
              /\ response.color = "medium"
              /\ Len(response.findings) = 1

C1_Witness ==
    /\ pc = "done"
    /\ ~HasKeyword(text)
    /\ Contains(text, <<"w","h","a","t","s","a","p","p">>)
    /\ Contains(text, <<"b","r","e","a","k","i","n","g">>)
    /\ response.score = 30

\* C2: the score of every returned verdict is an integer from 0 to 95.
C2_FinalScoreInRange ==
    pc = "done" => response.score \in 0..95

\* a public-figure death claim without confirmation and with strongly negative
\* sentiment: the running score is 15 - 30 - 15 before the clamp
C2_Witness ==
    /\ pc = "done"
    /\ PublicFigureDeath(text)
    /\ matched_sources = {}
    /\ NegativeSentiment(ai)
    /\ response.score = 0

\* the score the claim composes: 100, -30 forwarded, -25 alarmist, cap 15 for a
\* public-figure death, the confirmation delta, -15 negative sentiment, clamp
C3_Composed(t, matched, a) ==
    LET s0 == 100
        s1 == IF ForwardedPhrasing(t) THEN s0 - 30 ELSE s0
        s2 == IF AlarmistLanguage(t) THEN s1 - 25 ELSE s1
        s3 == IF PublicFigureDeath(t) /\ s2 > 15 THEN 15 ELSE s2
        n  == Cardinality(Strong(matched))
        s4 == s3 + (IF n >= 2 THEN 35 ELSE IF n = 1 THEN 10 ELSE -30)
        s5 == IF NegativeSentiment(a) THEN s4 - 15 ELSE s4
    IN  Clamp(s5)

\* C3: the final score of a checkable claim is the clamp to [0, 95] of 100
\* with, in this order, -30 for forwarded phrasing, -25 for alarmist words, the
\* cap min(score, 15) for a public-figure death claim, the confirmation delta
\* and -15 for strongly negative sentiment; an alarmist public-figure death
\* claim with no match and no negative sentiment ends at 0, "Likely False".
C3_ScoreComposition ==
    Scored =>
        /\ response.score = C3_Composed(text, matched_sources, ai)
        /\ ( /\ AlarmistLanguage(text)
             /\ PublicFigureDeath(text)
             /\ Strong(matched_sources) = {}
             /\ ~NegativeSentiment(ai) )
           => (response.score = 0 /\ response.status = "Likely False")

\* "breaking modi died", nothing matched, sentiment not negative
C3_Witness ==
    /\ Scored
    /\ AlarmistLanguage(text)
    /\ PublicFigureDeath(text)
    /\ ~ForwardedPhrasing(text)
    /\ matched_sources = {}
    /\ ai.label = "POSITIVE"
    /\ response.score = 0
    /\ response.status = "Likely False"

\* C4: on the scoring path status and color follow from the final score alone:
\* >= 70 "Likely True"/"high", 40..69 "Unverified"/"medium", below 40
\* "Likely False"/"low"; "Not Fact-Checkable" is returned only for a text that
\* is not checkable.
C4_StatusFromScore ==
    pc = "done" =>
        /\ HasKeyword(text) =>
              /\ response.score >= 70 =>
                    (response.status = "Likely True" /\ response.color = "high")
              /\ (response.score >= 40 /\ response.score < 70) =>
                    (response.status = "Unverified" /\ response.color = "medium")
              /\ response.score < 40 =>
                    (response.status = "Likely False" /\ response.color = "low")
        /\ response.status = "Not Fact-Checkable" => ~HasKeyword(text)

\* the boundary 40 of "Unverified": forwarded phrasing and no confirmation
C4_Witness ==
    /\ Scored
    /\ response.score = 40
    /\ response.status = "Unverified"
    /\ response.color = "medium"

\* the headlines among the first n whose overlap with the core terms is >= 2
OverlappingSources(n) ==
    {headlines[i].source : i \in
        {j \in 1..n : TermOverlap(core_terms, headlines[j].title) >= 2}}

\* C5: an iteration of the matching loop adds the headline's source exactly
\* when its similarity is > 0.6 and its term overlap is >= 2, and adds nothing
\* else; so the matched set holds only sources of processed headlines with
\* overlap >= 2, each once, and never one whose headlines all had similarity
\* <= 0.6 or overlap < 2.
C5_MatchRequiresBoth ==
    /\ [][(pc = "match" /\ item_i' = item_i + 1) =>
             matched_sources' =
                IF similarity' > 60 /\ term_overlap' >= 2
                THEN matched_sources \cup {headlines[item_i].source}
                ELSE matched_sources]_vars
    /\ [](pc = "match" => matched_sources \subseteq OverlappingSources(item_i - 1))
    /\ []((pc = "match" /\ item_i = 2 /\ similarity <= 60) => matched_sources = {})

\* similarity 0.9 and term overlap 0: the source is not added
C5_Witness ==
    /\ pc = "match"
    /\ item_i = 2
    /\ similarity = 90
    /\ term_overlap = 0
    /\ matched_sources = {}

\* C6: the confirmation step changes the score by -30, +10 or +35 for 0, 1 or
\* at least 2 matched sources other than "Google News", with the fixed finding
\* for 0 also when Google News alone matched; a Google News match, added or
\* removed, leaves the returned score as it is.
C6_ConfirmationByStrongCount ==
    /\ [][(pc = "match" /\ pc' = "manipulation") =>
             LET n == Cardinality(Strong(matched_sources))
             IN  /\ score' - score =
                        (IF n >= 2 THEN 35 ELSE IF n = 1 THEN 10 ELSE -30)
                 /\ n = 0 => findings'[Len(findings')] =
                        <<"No reliable confirmation found in trusted news sources", <<>>>>
                 /\ n > 0 => findings'[Len(findings')][1] #
                        "No reliable confirmation found in trusted news sources"]_vars
    /\ [](Scored =>
             /\ response.score =
                    CheckScore(text, matched_sources \cup {"Google News"}, ai)
             /\ response.score =
                    CheckScore(text, matched_sources \ {"Google News"}, ai))

\* Google News alone matched: -30 and the fixed finding
C6_Witness ==
    /\ pc = "manipulation"
    /\ matched_sources = {"Google News"}
    /\ score = 70
    /\ findings[Len(findings)][1] =
          "No reliable confirmation found in trusted news sources"

\* C7: for a claim with a public-figure token and "died" the running score is
\* at most 15 from the public-figure rule until the confirmation step, for
\* every combination of risk-language flags: the cap precedes the confirmation
\* delta and the final clamp.
C7_PublicFigureCap ==
    ( /\ pc \in {"call_fetch", "fetch", "match"}
      /\ \/ Contains(text, <<"m","o","d","i">>)
         \/ Contains(text, <<"p","r","i","m","e"," ","m","i","n","i","s","t","e","r">>)
      /\ Contains(text, <<"d","i","e","d">>) )
    => score <= 15

\* right after the rule fired on a claim with no risk language
C7_Witness ==
    /\ pc = "call_fetch"
    /\ PublicFigureDeath(text)
    /\ ~ForwardedPhrasing(text)
    /\ ~AlarmistLanguage(text)
    /\ score = 15
    /\ findings = <<<<"Unverified death claim about public figure", <<>>>>>>

\* the checkable texts without alarmist words, each as its forwarded flag, its
\* public-figure flag and its running score after the public-figure rule
CalmTexts ==
    {<<ForwardedPhrasing(u), PublicFigureDeath(u),
       PublicFigureScore(LanguageRiskScore(100, u), u)>> :
        u \in {t \in {Lower(c) : c \in Contents} :
                  is_news_checkable(t) /\ ~AlarmistLanguage(t)}}

\* the calm texts that differ from t in the alarmist flag alone
CalmCounterparts(t) ==
    {u \in CalmTexts :
        u[1] = ForwardedPhrasing(t) /\ u[2] = PublicFigureDeath(t)}

\* C8: a checkable claim with an alarmist word scores no higher than any
\* checkable claim without one that has the same forwarded flag, the same
\* public-figure flag, the same matched sources and the same sentiment answer.
C8_AlarmistMonotone ==
    (Scored /\ AlarmistLanguage(text)) =>
        \A u \in CalmCounterparts(text) :
            response.score <= CheckScoreFrom(u[3], matched_sources, ai)

\* an alarmist claim that scores strictly below its calm counterpart
C8_Witness ==
    /\ Scored
    /\ AlarmistLanguage(text)
    /\ \E u \in CalmCounterparts(text) :
          response.score < CheckScoreFrom(u[3], matched_sources, ai)

\* C9: a fetch failure of a source is not fatal: the evaluation of a checkable
\* claim is never ended without a verdict by a feed that fails.
C9_FetchFailureNonFatal ==
    pc # "aborted"

\* the elements of a sequence
Range(s) == {s[i] : i \in 1..Len(s)}

\* the core terms of the claim, as a set, that occur in the title
DistinctOverlap(terms, title) ==
    Cardinality({w \in Range(terms) : Contains(title, w)})

\* C10: the term overlap computed for a headline is the number of distinct
\* core terms of the claim that occur in its title, so a claim that only
\* repeats one core term never reaches the overlap 2 a match needs.
C10_OverlapCountsDistinctTerms ==
    (pc = "match" /\ item_i > 1) =>
        /\ term_overlap = DistinctOverlap(core_terms, headlines[item_i - 1].title)
        /\ Cardinality(Range(core_terms)) = 1 => matched_sources = {}

=============================================================================
